---- MODULE Spec2Model ----
(***************************************************************************)
(* Model of leveldb's log::Writer (db/log_writer.cc): the write path of    *)
(* the write-ahead log.  AddRecord fragments a logical record over fixed   *)
(* size blocks and EmitPhysicalRecord appends header + payload and flushes.*)
(*                                                                         *)
(* Bytes are modelled as spans.  A payload is a content name and a length; *)
(* the bytes [from, from+n) of content c are the span (c, from, n).  The   *)
(* destination file is the sequence of spans it accepted.                  *)
(***************************************************************************)
EXTENDS Integers, Sequences, FiniteSets, TLC

\* ------------------------------------------------------------------------
\* Program constants (db/log_format.h, fixed by the format)
\* ------------------------------------------------------------------------
kBlockSize == 32768
kHeaderSize == 7
kZeroType == 0
kFullType == 1
kFirstType == 2
kMiddleType == 3
kLastType == 4
kMaxRecordType == 4
MaxFragmentLen == 65535

\* ------------------------------------------------------------------------
\* Bounds of the model
\* ------------------------------------------------------------------------
MaxCalls == 2
MaxFailures == 1
MaxBlocks == 2

Threads == {1, 2}

\* Payloads offered to AddRecord whatever the state of the writer, as
\* <<content, length>>: empty, one byte (of either content), a payload that
\* leaves exactly a header's room in a fresh block, one that leaves 3 bytes,
\* and one of MaxBlocks whole blocks.
Payloads ==
  { <<"a", 0>>, <<"a", 1>>, <<"b", 1>>,
    <<"a", kBlockSize - 2 * kHeaderSize>>,
    <<"a", kBlockSize - kHeaderSize - 3>>,
    <<"b", MaxBlocks * kBlockSize>> }

\* ------------------------------------------------------------------------
\* Status (leveldb::Status): OK, or an I/O error that remembers the
\* destination operation (index in ops) that produced it.
\* ------------------------------------------------------------------------
StatusOK == [code |-> "OK", op |-> 0]
IOError(i) == [code |-> "IOError", op |-> i]
Pending == [code |-> "pending", op |-> 0]
ok(s) == s.code = "OK"

\* ------------------------------------------------------------------------
\* crc32c (util/crc32c.h), modelled as a collision-free checksum: the value
\* is the sequence of byte spans it covers, plus whether it is masked.
\* ------------------------------------------------------------------------
TagSpan(t) == [c |-> "tag", from |-> t, n |-> 1]
Span(c, from, n) == [c |-> c, from |-> from, n |-> n]
CrcInit == [masked |-> FALSE, over |-> <<>>]
CrcExtend(crc, span) ==
  IF span.n = 0 THEN crc ELSE [crc EXCEPT !.over = Append(@, span)]
CrcValue(span) == CrcExtend(CrcInit, span)
CrcMask(crc) == [crc EXCEPT !.masked = TRUE]

\* ------------------------------------------------------------------------
\* Byte segments handed to the destination
\* ------------------------------------------------------------------------
NoHeader == [crc |-> CrcInit, b4 |-> 0, b5 |-> 0, b6 |-> 0]
ZeroSeg(n) == [k |-> "z", n |-> n, c |-> "-", from |-> 0, h |-> NoHeader]
DataSeg(c, from, n) == [k |-> "d", n |-> n, c |-> c, from |-> from, h |-> NoHeader]
HdrSeg(h) == [k |-> "h", n |-> kHeaderSize, c |-> "-", from |-> 0, h |-> h]
NoSeg == [k |-> "-", n |-> 0, c |-> "-", from |-> 0, h |-> NoHeader]

\* The first w bytes of a segment.
SegPrefix(seg, w) == [seg EXCEPT !.n = w]

VARIABLES
  block_offset,   \* Writer::block_offset_
  type_crc,       \* Writer::type_crc_
  file,           \* bytes accepted by dest_, as a sequence of segments
  fsize,          \* number of bytes in file
  ops,            \* history: every call made on dest_
  calls,          \* history: every AddRecord call
  fails,          \* number of destination failures so far
  violated,       \* assertions that evaluated to false
  pc,             \* per thread: position in AddRecord / EmitPhysicalRecord
  cur,            \* per thread: index in calls of the call in flight
  ptr,            \* AddRecord: ptr (offset into the payload)
  left,           \* AddRecord: left
  begin,          \* AddRecord: begin
  s,              \* AddRecord: s
  leftover,       \* AddRecord: leftover
  avail,          \* AddRecord: avail (as the signed value before size_t)
  fragment_length,\* AddRecord: fragment_length
  type,           \* AddRecord: type
  end,            \* AddRecord: end
  buf,            \* EmitPhysicalRecord: buf (the header)
  es,             \* EmitPhysicalRecord: s
  reg             \* EmitPhysicalRecord: block_offset_ as loaded by line 125

vars == <<block_offset, type_crc, file, fsize, ops, calls, fails, violated,
          pc, cur, ptr, left, begin, s, leftover, avail, fragment_length,
          type, end, buf, es, reg>>

locals == <<ptr, left, begin, s, leftover, avail, fragment_length, type, end, buf, es,
            reg>>

\* ------------------------------------------------------------------------
\* Writer::Writer
\* ------------------------------------------------------------------------
Init ==
  /\ block_offset = 0
  /\ type_crc = [i \in 0..kMaxRecordType |-> CrcValue(TagSpan(i))]
  /\ file = <<>>
  /\ fsize = 0
  /\ ops = <<>>
  /\ calls = <<>>
  /\ fails = 0
  /\ violated = {}
  /\ pc = [t \in Threads |-> "idle"]
  /\ cur = [t \in Threads |-> 0]
  /\ ptr = [t \in Threads |-> 0]
  /\ left = [t \in Threads |-> 0]
  /\ begin = [t \in Threads |-> FALSE]
  /\ s = [t \in Threads |-> StatusOK]
  /\ leftover = [t \in Threads |-> 0]
  /\ avail = [t \in Threads |-> 0]
  /\ fragment_length = [t \in Threads |-> 0]
  /\ type = [t \in Threads |-> kZeroType]
  /\ end = [t \in Threads |-> FALSE]
  /\ buf = [t \in Threads |-> NoHeader]
  /\ es = [t \in Threads |-> StatusOK]
  /\ reg = [t \in Threads |-> 0]

\* ------------------------------------------------------------------------
\* The destination (WritableFile).  An operation succeeds, or fails having
\* taken none or half of the bytes it was given.
\* ------------------------------------------------------------------------
Written(n) == {0, n \div 2}
Outcomes(n) ==
  {[ok |-> TRUE, w |-> n]} \cup
  (IF fails < MaxFailures THEN {[ok |-> FALSE, w |-> k] : k \in Written(n)} ELSE {})

NoFrag == [type |-> kZeroType, n |-> 0, from |-> 0, begin |-> FALSE, end |-> FALSE]
Frag(t) == [type |-> type[t], n |-> fragment_length[t], from |-> ptr[t],
            begin |-> begin[t], end |-> end[t]]

\* One call on dest_: what is "trailer", "header", "payload" or "flush".
DestCall(t, what, seg, frag, o) ==
  /\ file' = IF o.w > 0 THEN Append(file, SegPrefix(seg, o.w)) ELSE file
  /\ fsize' = fsize + o.w
  /\ ops' = Append(ops, [call |-> cur[t], what |-> what, seg |-> seg, frag |-> frag,
                         off |-> block_offset, pos |-> fsize, ok |-> o.ok])
  /\ fails' = fails + (IF o.ok THEN 0 ELSE 1)

\* The status a destination call returns.
DestStatus(o) == IF o.ok THEN StatusOK ELSE IOError(Len(ops) + 1)

\* ------------------------------------------------------------------------
\* Writer::AddRecord
\* ------------------------------------------------------------------------
\* size_t comparison (left < avail) with avail converted from a signed int:
\* a negative value wraps to a size_t larger than any payload length.
SizeLess(l, a) == IF a < 0 THEN TRUE ELSE l < a

\* A fragment that is never cut to the space available.
FragmentLength_NoSplit(l, a) == l

\* line 63
FragmentLength(l, a) == IF SizeLess(l, a) THEN l ELSE a

\* A type selection without the Middle branch.
RecordTypeFor_NoMiddle(b, e) ==
  IF b /\ e THEN kFullType
  ELSE IF b THEN kFirstType
  ELSE kLastType

RecordTypeFor(b, e) ==
  IF b /\ e THEN kFullType
  ELSE IF b THEN kFirstType
  ELSE IF e THEN kLastType
  ELSE kMiddleType

\* lines 28-38: entry, with a payload of content c and length n
AddRecord(t, c, n) ==
  /\ pc[t] = "idle"
  /\ Len(calls) < MaxCalls
  /\ calls' = Append(calls, [c |-> c, len |-> n, thread |-> t, start |-> block_offset,
                             status |-> Pending, finish |-> 0,
                             overlap |-> \E u \in Threads \ {t} : pc[u] /= "idle"])
  /\ cur' = [cur EXCEPT ![t] = Len(calls) + 1]
  /\ ptr' = [ptr EXCEPT ![t] = 0]
  /\ left' = [left EXCEPT ![t] = n]
  /\ s' = [s EXCEPT ![t] = StatusOK]
  /\ begin' = [begin EXCEPT ![t] = TRUE]
  /\ pc' = [pc EXCEPT ![t] = "L42"]
  /\ UNCHANGED <<block_offset, type_crc, file, fsize, ops, fails, violated,
                 leftover, avail, fragment_length, type, end, buf, es, reg>>

\* line 45: the block cannot hold a header any more
NeedsRoll_Inclusive(lo) == lo <= kHeaderSize

NeedsRoll(lo) == lo < kHeaderSize

\* line 49: there are bytes left to fill
NeedsTrailer_Always(lo) == TRUE

NeedsTrailer(lo) == lo > 0

\* lines 42-49: leftover, its assertion, and the choice of a block roll
ComputeLeftover(t) ==
  /\ pc[t] = "L42"
  /\ leftover' = [leftover EXCEPT ![t] = kBlockSize - block_offset]
  /\ violated' = violated \cup (IF leftover'[t] >= 0 THEN {} ELSE {"L43"})
  /\ pc' = [pc EXCEPT ![t] =
              IF NeedsRoll(leftover'[t])
              THEN (IF NeedsTrailer(leftover'[t]) THEN "L52" ELSE "L55")
              ELSE "L59"]
  /\ UNCHANGED <<block_offset, type_crc, file, fsize, ops, calls, fails, cur,
                 ptr, left, begin, s, avail, fragment_length, type, end, buf, es, reg>>

\* The trailer literal "\x00\x00\x00\x00\x00\x00" cut to n bytes (line 52).
Trailer(n) == ZeroSeg(n)

\* line 52: dest_->Append(trailer); the returned Status is discarded
AppendTrailer(t) ==
  /\ pc[t] = "L52"
  /\ \E o \in Outcomes(leftover[t]) :
       DestCall(t, "trailer", Trailer(leftover[t]), NoFrag, o)
  /\ violated' = violated \cup (IF kHeaderSize = 7 THEN {} ELSE {"L51"})
  /\ pc' = [pc EXCEPT ![t] = "L55"]
  /\ UNCHANGED <<block_offset, type_crc, calls, cur, locals>>

\* A block roll that forgets to reset the offset.
RolledOffset_Keep(off) == off

\* The block offset after a block roll (line 55).
RolledOffset(off) == 0

\* line 55: block_offset_ = 0
SwitchBlock(t) ==
  /\ pc[t] = "L55"
  /\ block_offset' = RolledOffset(block_offset)
  /\ pc' = [pc EXCEPT ![t] = "L59"]
  /\ UNCHANGED <<type_crc, file, fsize, ops, calls, fails, violated, cur, locals>>

\* lines 59-80: avail, fragment_length, end and the record type
Fragment(t) ==
  /\ pc[t] = "L59"
  /\ violated' = violated \cup
        (IF kBlockSize - block_offset - kHeaderSize >= 0 THEN {} ELSE {"L59"})
  /\ avail' = [avail EXCEPT ![t] = kBlockSize - block_offset - kHeaderSize]
  /\ fragment_length' = [fragment_length EXCEPT ![t] = FragmentLength(left[t], avail'[t])]
  /\ end' = [end EXCEPT ![t] = (left[t] = fragment_length'[t])]
  /\ type' = [type EXCEPT ![t] = RecordTypeFor(begin[t], end'[t])]
  /\ pc' = [pc EXCEPT ![t] = "L94"]
  /\ UNCHANGED <<block_offset, type_crc, file, fsize, ops, calls, fails, cur,
                 ptr, left, begin, s, leftover, buf, es, reg>>

\* ------------------------------------------------------------------------
\* Writer::EmitPhysicalRecord(t = type, ptr, n = fragment_length)
\* ------------------------------------------------------------------------
\* lines 103-105: the length bytes, each cut to a char
LengthLo(n) == n % 256
LengthHi(n) == (n \div 256) % 256

\* lines 109-110: the stored checksum of a record of type ty over span sp
RecordCrc(table, ty, sp) == CrcMask(CrcExtend(table[ty], sp))

\* lines 99-112: the header
FormatHeader(table, ty, sp) ==
  [crc |-> RecordCrc(table, ty, sp), b4 |-> LengthLo(sp.n), b5 |-> LengthHi(sp.n), b6 |-> ty]

\* A checksum taken over the start of the payload instead of the fragment.
PayloadSpan_FromStart(t) == Span(calls[cur[t]].c, 0, fragment_length[t])

\* The bytes Slice(ptr, n) of the payload of the call thread t is in.
PayloadSpan(t) == Span(calls[cur[t]].c, ptr[t], fragment_length[t])

\* lines 94-112: assertions, header
EmitEnter(t) ==
  /\ pc[t] = "L94"
  /\ violated' = violated
        \cup (IF fragment_length[t] <= MaxFragmentLen THEN {} ELSE {"L94"})
        \cup (IF block_offset + kHeaderSize + fragment_length[t] <= kBlockSize
              THEN {} ELSE {"L95"})
  /\ buf' = [buf EXCEPT ![t] = FormatHeader(type_crc, type[t], PayloadSpan(t))]
  /\ pc' = [pc EXCEPT ![t] = "L116"]
  /\ UNCHANGED <<block_offset, type_crc, file, fsize, ops, calls, fails, cur,
                 ptr, left, begin, s, leftover, avail, fragment_length, type, end, es, reg>>

\* Going on to the payload whatever the header Append returned.
AfterAppendHeader_Continue(st) == "L119"

\* Where EmitPhysicalRecord goes after a destination call returned st.
AfterAppendHeader(st) == IF ok(st) THEN "L119" ELSE "L125"

\* Leaving without the Flush of line 121.
AfterAppendPayload_NoFlush(st) == "L125"

AfterAppendPayload(st) == IF ok(st) THEN "L121" ELSE "L125"

\* lines 116-117: Status s = dest_->Append(Slice(buf, kHeaderSize))
AppendHeader(t) ==
  /\ pc[t] = "L116"
  /\ \E o \in Outcomes(kHeaderSize) :
       /\ DestCall(t, "header", HdrSeg(buf[t]), Frag(t), o)
       /\ es' = [es EXCEPT ![t] = DestStatus(o)]
  /\ pc' = [pc EXCEPT ![t] = AfterAppendHeader(es'[t])]
  /\ UNCHANGED <<block_offset, type_crc, calls, violated, cur,
                 ptr, left, begin, s, leftover, avail, fragment_length, type, end, buf, reg>>

\* lines 119-120: s = dest_->Append(Slice(ptr, n))
AppendPayload(t) ==
  /\ pc[t] = "L119"
  /\ \E o \in Outcomes(fragment_length[t]) :
       /\ DestCall(t, "payload",
                   DataSeg(calls[cur[t]].c, ptr[t], fragment_length[t]), Frag(t), o)
       /\ es' = [es EXCEPT ![t] = DestStatus(o)]
  /\ pc' = [pc EXCEPT ![t] = AfterAppendPayload(es'[t])]
  /\ UNCHANGED <<block_offset, type_crc, calls, violated, cur,
                 ptr, left, begin, s, leftover, avail, fragment_length, type, end, buf, reg>>

\* line 121: s = dest_->Flush()
Flush(t) ==
  /\ pc[t] = "L121"
  /\ \E o \in Outcomes(0) :
       /\ DestCall(t, "flush", NoSeg, Frag(t), o)
       /\ es' = [es EXCEPT ![t] = DestStatus(o)]
  /\ pc' = [pc EXCEPT ![t] = "L125"]
  /\ UNCHANGED <<block_offset, type_crc, calls, violated, cur,
                 ptr, left, begin, s, leftover, avail, fragment_length, type, end, buf, reg>>

\* An offset that is advanced by the payload only.
AdvancedOffset_NoHeader(off, n) == off + n

\* line 125: the block offset after a physical record of n payload bytes
AdvancedOffset(off, n) == off + kHeaderSize + n

\* An offset that is advanced only when the record was written.
OffsetAfterEmit_OnlyIfOk(off, n, st) == IF ok(st) THEN AdvancedOffset(off, n) ELSE off

\* line 125 is reached on every path through lines 116-123, whatever s is
OffsetAfterEmit(off, n, st) == AdvancedOffset(off, n)

\* A loop condition that does not look at the status.
LoopAgain_IgnoreStatus(st, l) == l > 0

\* line 89: the loop condition
LoopAgain(st, l) == ok(st) /\ l > 0

\* lines 125-126: block_offset_ += kHeaderSize + n; return s; and, back in
\* AddRecord, lines 82-89, which touch locals only: s is assigned, the
\* cursor advances and the loop condition is tested
EmitReturn(t) ==
  /\ pc[t] = "L125"
  /\ block_offset' = OffsetAfterEmit(block_offset, fragment_length[t], es[t])
  /\ s' = [s EXCEPT ![t] = es[t]]
  /\ ptr' = [ptr EXCEPT ![t] = @ + fragment_length[t]]
  /\ left' = [left EXCEPT ![t] = @ - fragment_length[t]]
  /\ begin' = [begin EXCEPT ![t] = FALSE]
  /\ pc' = [pc EXCEPT ![t] = IF LoopAgain(s'[t], left'[t]) THEN "L42" ELSE "L90"]
  /\ UNCHANGED <<type_crc, file, fsize, ops, calls, fails, violated, cur,
                 leftover, avail, fragment_length, type, end, buf, es, reg>>

\* line 90: return s
Return(t) ==
  /\ pc[t] = "L90"
  /\ calls' = [calls EXCEPT ![cur[t]].status = s[t], ![cur[t]].finish = block_offset]
  /\ pc' = [pc EXCEPT ![t] = "idle"]
  /\ cur' = [cur EXCEPT ![t] = 0]
  /\ UNCHANGED <<block_offset, type_crc, file, fsize, ops, fails, violated, locals>>

\* One step of the call thread t is in.
Step(t) ==
  \/ ComputeLeftover(t)
  \/ AppendTrailer(t)
  \/ SwitchBlock(t)
  \/ Fragment(t)
  \/ EmitEnter(t)
  \/ AppendHeader(t)
  \/ AppendPayload(t)
  \/ Flush(t)
  \/ EmitReturn(t)
  \/ Return(t)

\* The payload that fills the current block exactly, when there is one.
ExactFit == {<<"b", n>> : n \in {m \in {kBlockSize - block_offset - kHeaderSize} : m >= 0}}

\* The caller serializes the calls: one thread, one call in flight.
Caller == 1

Call ==
  \E p \in Payloads \cup ExactFit : AddRecord(Caller, p[1], p[2])

Next ==
  \/ Call
  \/ Step(Caller)

Spec == Init /\ [][Next]_vars

\* Every call on the destination returns, and the calling thread keeps
\* running: a call in flight takes its next step.
FairSpec == Spec /\ WF_vars(Step(Caller))

\* ------------------------------------------------------------------------
\* Callers that do not serialize their calls.  The writer takes no lock, so
\* the steps of two AddRecord calls interleave, and the accesses to
\* block_offset_ race: line 125 is a load followed by a store.
\* ------------------------------------------------------------------------
\* line 125, first half: block_offset_ is loaded
EmitLoad(t) ==
  /\ pc[t] = "L125"
  /\ reg' = [reg EXCEPT ![t] = block_offset]
  /\ pc' = [pc EXCEPT ![t] = "L125s"]
  /\ UNCHANGED <<block_offset, type_crc, file, fsize, ops, calls, fails, violated, cur,
                 ptr, left, begin, s, leftover, avail, fragment_length, type, end, buf, es>>

\* line 125, second half: the sum is stored; then lines 126 and 82-89
EmitStore(t) ==
  /\ pc[t] = "L125s"
  /\ block_offset' = OffsetAfterEmit(reg[t], fragment_length[t], es[t])
  /\ s' = [s EXCEPT ![t] = es[t]]
  /\ ptr' = [ptr EXCEPT ![t] = @ + fragment_length[t]]
  /\ left' = [left EXCEPT ![t] = @ - fragment_length[t]]
  /\ begin' = [begin EXCEPT ![t] = FALSE]
  /\ pc' = [pc EXCEPT ![t] = IF LoopAgain(s'[t], left'[t]) THEN "L42" ELSE "L90"]
  /\ UNCHANGED <<type_crc, file, fsize, ops, calls, fails, violated, cur,
                 leftover, avail, fragment_length, type, end, buf, es, reg>>

RaceStep(t) ==
  \/ ComputeLeftover(t)
  \/ AppendTrailer(t)
  \/ SwitchBlock(t)
  \/ Fragment(t)
  \/ EmitEnter(t)
  \/ AppendHeader(t)
  \/ AppendPayload(t)
  \/ Flush(t)
  \/ EmitLoad(t)
  \/ EmitStore(t)
  \/ Return(t)

\* The payloads of the two racing callers: thread 1 writes one block (two
\* fragments), thread 2 a record that leaves 3 bytes of a fresh block.
RacePayloads ==
  { <<1, "b", kBlockSize>>, <<2, "a", kBlockSize - kHeaderSize - 3>> }

\* Each thread makes one call.
RaceCall ==
  \E p \in RacePayloads :
    /\ \A k \in 1..Len(calls) : calls[k].thread /= p[1]
    /\ AddRecord(p[1], p[2], p[3])

\* The destination does not fail here: what goes wrong is the race alone.
RaceNext ==
  /\ \/ RaceCall
     \/ \E t \in Threads : RaceStep(t)
  /\ fails' = 0

SpecRace == Init /\ [][RaceNext]_vars

\* ------------------------------------------------------------------------
\* Reading the file back per the block format: trailers at block ends are
\* skipped, a header is followed by `length` payload bytes, a record whose
\* checksum, type or length is wrong is corruption, and running out of
\* bytes is the end of the file.
\* ------------------------------------------------------------------------
\* The bytes of a payload of content c and length n.
PayloadBytes(c, n) == IF n = 0 THEN <<>> ELSE <<Span(c, 0, n)>>

\* The n bytes from position from of a payload of content c.
PayloadBytes0(c, from, n) == IF n = 0 THEN <<>> ELSE <<Span(c, from, n)>>

\* Byte string bs followed by the span sp.
Concat(bs, sp) ==
  IF sp.n = 0 THEN bs
  ELSE IF bs /= <<>> /\ bs[Len(bs)].c = sp.c /\ bs[Len(bs)].from + bs[Len(bs)].n = sp.from
       THEN [bs EXCEPT ![Len(bs)].n = @ + sp.n]
       ELSE Append(bs, sp)

DecodeLength(h) == h.b4 + 256 * h.b5
ExpectedCrc(ty, sp) == CrcMask(CrcExtend(CrcValue(TagSpan(ty)), sp))

\* The outcome of reading at byte q when the bytes there are not a record.
Broken(q, out) ==
  [records |-> out, st |-> IF fsize - q < kHeaderSize THEN "eof" ELSE "corrupt"]

\* i: next segment of file, pos: its byte position, out: logical records so
\* far, scratch: the fragments of the record being assembled, infrag: inside
\* a First..Last group.
RECURSIVE Parse(_, _, _, _, _)
Parse(i, pos, out, scratch, infrag) ==
  IF i > Len(file) THEN [records |-> out, st |-> "eof"]
  ELSE
    LET rem == kBlockSize - (pos % kBlockSize)
        seg == file[i]
    IN
    IF rem < kHeaderSize
    THEN IF fsize - pos <= rem THEN [records |-> out, st |-> "eof"]
         ELSE IF seg.n = rem
              THEN Parse(i + 1, pos + rem, out, scratch, infrag)
              ELSE Broken(pos + rem, out)
    ELSE IF ~(seg.k = "h" /\ seg.n = kHeaderSize) THEN Broken(pos, out)
    ELSE
      LET length == DecodeLength(seg.h)
          ty == seg.h.b6
          hasData == length > 0
          dat == IF hasData /\ i + 1 <= Len(file) THEN file[i + 1] ELSE NoSeg
          sp == IF hasData THEN Span(dat.c, dat.from, length) ELSE Span("-", 0, 0)
          nexti == IF hasData THEN i + 2 ELSE i + 1
          nextpos == pos + kHeaderSize + length
      IN
      IF kHeaderSize + length > rem
        THEN [records |-> out, st |-> "corrupt"]
      ELSE IF fsize - (pos + kHeaderSize) < length
        THEN [records |-> out, st |-> "eof"]
      ELSE IF hasData /\ ~(dat.k = "d" /\ dat.n = length)
        THEN [records |-> out, st |-> "corrupt"]
      ELSE IF seg.h.crc /= ExpectedCrc(ty, sp)
        THEN [records |-> out, st |-> "corrupt"]
      ELSE IF ty = kFullType /\ ~infrag
        THEN Parse(nexti, nextpos, Append(out, Concat(<<>>, sp)), <<>>, FALSE)
      ELSE IF ty = kFirstType /\ ~infrag
        THEN Parse(nexti, nextpos, out, Concat(<<>>, sp), TRUE)
      ELSE IF ty = kMiddleType /\ infrag
        THEN Parse(nexti, nextpos, out, Concat(scratch, sp), TRUE)
      ELSE IF ty = kLastType /\ infrag
        THEN Parse(nexti, nextpos, Append(out, Concat(scratch, sp)), <<>>, FALSE)
      ELSE [records |-> out, st |-> "corrupt"]

ReadAll == Parse(1, 0, <<>>, <<>>, FALSE)

\* The payloads passed to AddRecord, in call order.
Written_Payloads == [k \in 1..Len(calls) |-> PayloadBytes(calls[k].c, calls[k].len)]

\* ------------------------------------------------------------------------
\* Derived views of the histories
\* ------------------------------------------------------------------------
Idle == \A t \in Threads : pc[t] = "idle"
AllSucceeded == \A k \in 1..Len(calls) : ok(calls[k].status)

\* The indices in ops of the destination calls made by AddRecord call k.
OpsOf(k) == {i \in 1..Len(ops) : ops[i].call = k}
OpsOfKind(k, what) == {i \in OpsOf(k) : ops[i].what = what}

\* ------------------------------------------------------------------------
\* C1: from a block-aligned empty file, once every AddRecord call has
\* returned OK, reading the file back yields exactly the payloads passed,
\* in call order, and meets no corruption.
\* ------------------------------------------------------------------------
C1_RoundTrip ==
  (Idle /\ AllSucceeded) =>
     /\ ReadAll.records = Written_Payloads
     /\ ReadAll.st = "eof"

\* The same, when in addition no destination call has failed.
C1_RoundTripNoFailure ==
  (Idle /\ AllSucceeded /\ fails = 0) =>
     /\ ReadAll.records = Written_Payloads
     /\ ReadAll.st = "eof"

\* The header Appends of AddRecord call k, in order: one per physical record.
HeadersOf(k) == SelectSeq(ops, LAMBDA o : o.call = k /\ o.what = "header")
TypesOf(k) == [i \in 1..Len(HeadersOf(k)) |-> HeadersOf(k)[i].seg.h.b6]

\* A complete group: Full, or First Middle* Last.
ValidGroup(ts) ==
  \/ ts = <<kFullType>>
  \/ /\ Len(ts) >= 2
     /\ ts[1] = kFirstType
     /\ ts[Len(ts)] = kLastType
     /\ \A i \in 2..(Len(ts) - 1) : ts[i] = kMiddleType

\* The beginning of a group that is not complete yet: First Middle*.
OpenGroup(ts) ==
  \/ ts = <<>>
  \/ /\ ts[1] = kFirstType
     /\ \A i \in 2..Len(ts) : ts[i] = kMiddleType

\* ------------------------------------------------------------------------
\* C2: the type tags a call emits are one Full, or one First, zero or more
\* Middle and one Last; a call that has not returned OK has emitted the
\* beginning of such a sequence; no other tag is emitted, and each tag is
\* Full iff begin and end, First iff begin and not end, Last iff not begin
\* and end, Middle otherwise.
\* ------------------------------------------------------------------------
C2_TypeSequence ==
  \A k \in 1..Len(calls) :
    /\ ok(calls[k].status) => ValidGroup(TypesOf(k))
    /\ ~ok(calls[k].status) => (OpenGroup(TypesOf(k)) \/ ValidGroup(TypesOf(k)))
    /\ \A i \in 1..Len(HeadersOf(k)) :
         LET o == HeadersOf(k)[i]
             ty == o.seg.h.b6
         IN /\ ty \in {kFullType, kFirstType, kMiddleType, kLastType}
            /\ (ty = kFullType) <=> (o.frag.begin /\ o.frag.end)
            /\ (ty = kFirstType) <=> (o.frag.begin /\ ~o.frag.end)
            /\ (ty = kLastType) <=> (~o.frag.begin /\ o.frag.end)
            /\ (ty = kMiddleType) <=> (~o.frag.begin /\ ~o.frag.end)
            /\ o.frag.begin <=> (i = 1)
            /\ o.frag.end <=> (o.frag.from + o.frag.n = calls[k].len)

\* A call that started in the middle of a block returned OK after a First,
\* a Middle and a Last record.
C2_Witness ==
  \E k \in 1..Len(calls) :
    /\ ok(calls[k].status)
    /\ calls[k].start > 0
    /\ TypesOf(k) = <<kFirstType, kMiddleType, kLastType>>

\* The destination calls of AddRecord call k, in order.
CallOps(k) == SelectSeq(ops, LAMBDA o : o.call = k)
EmitOps(k) == SelectSeq(ops, LAMBDA o : o.call = k /\ o.what /= "trailer")
Returned(k) == calls[k].status.code /= "pending"

\* ------------------------------------------------------------------------
\* C3: whenever an Append or a Flush made during an AddRecord call failed,
\* the Append of the trailer included, the call returns a non-OK status.
\* ------------------------------------------------------------------------
C3_ErrorsReturned ==
  \A k \in 1..Len(calls) :
    (Returned(k) /\ \E i \in OpsOf(k) : ~ops[i].ok) => ~ok(calls[k].status)

\* ------------------------------------------------------------------------
\* C4: when a destination call of EmitPhysicalRecord fails, the AddRecord
\* call makes no later destination call (no retry, no further fragment) and
\* returns the error of that destination call.
\* ------------------------------------------------------------------------
C4_StopAtFirstError ==
  \A k \in 1..Len(calls) :
    \A i \in OpsOf(k) :
      (~ops[i].ok /\ ops[i].what /= "trailer") =>
         /\ \A j \in OpsOf(k) : j <= i
         /\ Returned(k) => calls[k].status = IOError(i)

\* A call returned the error of its Middle record, with payload bytes left.
C4_Witness ==
  \E k \in 1..Len(calls) : \E i \in OpsOf(k) :
    /\ ~ops[i].ok
    /\ ops[i].frag.type = kMiddleType
    /\ calls[k].status = IOError(i)
    /\ ops[i].frag.from + ops[i].frag.n < calls[k].len

\* ------------------------------------------------------------------------
\* C5: when AddRecord returns OK, its destination calls other than trailers
\* are, for each fragment in payload order, Append(header), Append(fragment
\* payload), Flush, all successful; every Append of the call, trailers
\* included, is followed by a successful Flush of the call; the last
\* destination call is a Flush.
\* ------------------------------------------------------------------------
C5_AppendThenFlush ==
  \A k \in 1..Len(calls) :
    ok(calls[k].status) =>
      LET es_ == EmitOps(k)
          all == CallOps(k)
          nf == Len(HeadersOf(k))
      IN
      /\ nf >= 1
      /\ Len(es_) = 3 * nf
      /\ \A j \in 1..nf :
           LET h == es_[3 * j - 2]
               p == es_[3 * j - 1]
               f == es_[3 * j]
           IN /\ h.what = "header" /\ h.ok
              /\ h.seg.k = "h" /\ h.seg.n = kHeaderSize
              /\ DecodeLength(h.seg.h) = p.seg.n
              /\ p.what = "payload" /\ p.ok
              /\ p.seg.k = "d" /\ p.seg.c = calls[k].c
              /\ p.seg.from = (IF j = 1 THEN 0
                               ELSE es_[3 * j - 4].seg.from + es_[3 * j - 4].seg.n)
              /\ (j = nf) => (p.seg.from + p.seg.n = calls[k].len)
              /\ f.what = "flush" /\ f.ok
      /\ \A i \in 1..Len(all) :
           all[i].what /= "flush" =>
             \E j \in (i + 1)..Len(all) : all[j].what = "flush" /\ all[j].ok
      /\ all[Len(all)].what = "flush" /\ all[Len(all)].ok

\* A call of several fragments that also appended a trailer returned OK.
C5_Witness ==
  \E k \in 1..Len(calls) :
    /\ ok(calls[k].status)
    /\ Len(HeadersOf(k)) >= 2
    /\ OpsOfKind(k, "trailer") /= {}

\* ------------------------------------------------------------------------
\* C6: a call with an empty payload emits exactly one physical record, of
\* type Full and length 0; a trailer precedes it exactly when fewer than
\* kHeaderSize bytes, and more than none, were left in the block; the block
\* offset ends kHeaderSize after the offset at which the header was written.
\* ------------------------------------------------------------------------
C6_EmptyPayload ==
  \A k \in 1..Len(calls) :
    (Returned(k) /\ calls[k].len = 0) =>
      LET hs == HeadersOf(k)
          all == CallOps(k)
          lo == kBlockSize - calls[k].start
          padded == 0 < lo /\ lo < kHeaderSize
      IN
      /\ Len(hs) = 1
      /\ hs[1].seg.h.b6 = kFullType
      /\ hs[1].seg.h.b4 = 0 /\ hs[1].seg.h.b5 = 0
      /\ hs[1].frag.n = 0
      /\ hs[1].off = (IF lo < kHeaderSize THEN 0 ELSE calls[k].start)
      /\ calls[k].finish = hs[1].off + kHeaderSize
      /\ Cardinality(OpsOfKind(k, "trailer")) = (IF padded THEN 1 ELSE 0)
      /\ padded => (all[1].what = "trailer" /\ all[1].seg = ZeroSeg(lo))
      /\ all[IF padded THEN 2 ELSE 1].what = "header"
      /\ \A i \in 1..Len(all) : all[i].seg.k = "d" => all[i].seg.n = 0

\* An empty payload was written behind a trailer.
C6_Witness ==
  \E k \in 1..Len(calls) :
    /\ ok(calls[k].status)
    /\ calls[k].len = 0
    /\ OpsOfKind(k, "trailer") /= {}
    /\ calls[k].finish = kHeaderSize

\* ------------------------------------------------------------------------
\* C7 as stated: in every reachable state 0 <= block_offset < kBlockSize.
\* ------------------------------------------------------------------------
C7_OffsetBelowBlockSize == 0 <= block_offset /\ block_offset < kBlockSize

\* ------------------------------------------------------------------------
\* C7, amended: in every reachable state, between calls and inside them,
\* 0 <= block_offset <= kBlockSize; the offset is kBlockSize exactly after a
\* physical record that ends at the block boundary, until the next roll.
\* ------------------------------------------------------------------------
C7_OffsetRange == 0 <= block_offset /\ block_offset <= kBlockSize

\* Between two calls the offset is kBlockSize: a record filled its block.
C7_Witness == Idle /\ block_offset = kBlockSize /\ Len(calls) >= 1

\* The block offset at which iteration j of call k starts (line 42).
IterStart(k, j) ==
  IF j = 1 THEN calls[k].start
  ELSE HeadersOf(k)[j - 1].off + kHeaderSize + HeadersOf(k)[j - 1].frag.n

\* Call k is given exactly the payload bytes its block still has room for.
FillsBlock(k) ==
  /\ kBlockSize - calls[k].start >= kHeaderSize
  /\ calls[k].len = kBlockSize - calls[k].start - kHeaderSize

\* ------------------------------------------------------------------------
\* C8: a call whose payload length is avail = kBlockSize - block_offset -
\* kHeaderSize (at least kHeaderSize bytes being left) emits exactly one
\* record, of type Full, and leaves block_offset = kBlockSize; neither it
\* nor the next call appends a trailer, and the first header of the next
\* call is written at block offset 0, at the start of the next block of the
\* file when no destination call has failed.
\* ------------------------------------------------------------------------
C8_ExactFit ==
  \A k \in 1..Len(calls) :
    FillsBlock(k) =>
      /\ OpsOfKind(k, "trailer") = {}
      /\ Len(HeadersOf(k)) <= 1
      /\ \A i \in 1..Len(HeadersOf(k)) :
           /\ HeadersOf(k)[i].seg.h.b6 = kFullType
           /\ HeadersOf(k)[i].frag.n = calls[k].len
           /\ HeadersOf(k)[i].off = calls[k].start
      /\ Returned(k) =>
           /\ Len(HeadersOf(k)) = 1
           /\ calls[k].finish = kBlockSize
      /\ (k + 1 <= Len(calls)) =>
           /\ calls[k + 1].start = kBlockSize
           /\ OpsOfKind(k + 1, "trailer") = {}
           /\ Len(HeadersOf(k + 1)) >= 1 =>
                /\ HeadersOf(k + 1)[1].off = 0
                /\ fails = 0 =>
                     /\ HeadersOf(k + 1)[1].pos % kBlockSize = 0
                     /\ HeadersOf(k + 1)[1].pos =
                          HeadersOf(k)[1].pos + kHeaderSize + calls[k].len

\* A payload filled its block to the last byte, and the next call has
\* written its header.
C8_Witness ==
  \E k \in 1..Len(calls) :
    /\ FillsBlock(k)
    /\ calls[k].len > 0
    /\ ok(calls[k].status)
    /\ k + 1 <= Len(calls)
    /\ Len(HeadersOf(k + 1)) >= 1

\* ------------------------------------------------------------------------
\* C9: an iteration that starts with leftover = kBlockSize - block_offset <
\* kHeaderSize appends exactly leftover zero bytes when leftover > 0 and
\* nothing when leftover = 0, resets block_offset to 0 and writes the next
\* header at block offset 0; no trailer is appended when leftover >=
\* kHeaderSize; a trailer is 1..kHeaderSize-1 bytes long and, when no
\* destination call has failed, ends at a block boundary of the file.
\* ------------------------------------------------------------------------
C9_BlockRoll ==
  /\ \A i \in 1..Len(ops) :
       ops[i].what = "trailer" =>
         /\ ops[i].seg.k = "z"
         /\ ops[i].seg.n = kBlockSize - ops[i].off
         /\ 1 <= ops[i].seg.n /\ ops[i].seg.n <= kHeaderSize - 1
         /\ fails = 0 => (ops[i].pos + ops[i].seg.n) % kBlockSize = 0
         /\ i + 1 <= Len(ops) =>
              /\ ops[i + 1].call = ops[i].call
              /\ ops[i + 1].what = "header"
              /\ ops[i + 1].off = 0
              /\ fails = 0 => ops[i + 1].pos % kBlockSize = 0
  /\ \A k \in 1..Len(calls) : \A j \in 1..Len(HeadersOf(k)) :
       LET lo == kBlockSize - IterStart(k, j)
           h == HeadersOf(k)[j]
           before == {i \in OpsOfKind(k, "trailer") :
                        /\ i + 1 <= Len(ops)
                        /\ ops[i + 1] = h}
       IN /\ h.off = (IF lo < kHeaderSize THEN 0 ELSE IterStart(k, j))
          /\ (0 < lo /\ lo < kHeaderSize) <=> (before /= {})
  /\ \A t \in Threads :
       /\ pc[t] = "L52" => (0 < leftover[t] /\ leftover[t] < kHeaderSize)
       /\ pc[t] = "L55" => (leftover[t] < kHeaderSize)
       /\ pc[t] = "L59" => (leftover[t] < kHeaderSize => block_offset = 0)

\* A trailer of kHeaderSize - 1 bytes was appended and the header behind it
\* written at offset 0; another roll happened with nothing left to fill.
C9_Witness ==
  /\ \E i \in 1..Len(ops) :
       /\ ops[i].what = "trailer"
       /\ ops[i].seg.n = 3
       /\ i + 1 <= Len(ops)
       /\ ops[i + 1].what = "header"
  /\ \E k \in 1..Len(calls) : \E j \in 1..Len(HeadersOf(k)) :
       IterStart(k, j) = kBlockSize

\* ------------------------------------------------------------------------
\* C10: with serialized calls, whatever the payload lengths and destination
\* failures, no assertion of the writer fails: leftover >= 0 at line 43,
\* kBlockSize - block_offset - kHeaderSize >= 0 at line 59, and at every
\* EmitPhysicalRecord n <= 65535 and block_offset + kHeaderSize + n <=
\* kBlockSize, so no physical record crosses a block boundary.
\* ------------------------------------------------------------------------
C10_AssertionsHold ==
  /\ violated = {}
  /\ \A t \in Threads :
       /\ pc[t] \in {"L52", "L55", "L59"} => leftover[t] >= 0
       /\ pc[t] = "L94" => avail[t] >= 0
       /\ pc[t] \in {"L116", "L119", "L121", "L125"} =>
            /\ fragment_length[t] <= 65535
            /\ block_offset + kHeaderSize + fragment_length[t] <= kBlockSize
  /\ \A i \in 1..Len(ops) :
       ops[i].what = "header" =>
         /\ ops[i].frag.n <= 65535
         /\ ops[i].off + kHeaderSize + ops[i].frag.n <= kBlockSize
         /\ fails = 0 =>
              (ops[i].pos % kBlockSize) + kHeaderSize + ops[i].frag.n <= kBlockSize

\* A record that fills a whole block was emitted by a call that came after
\* a failed one.
C10_Witness ==
  \E i \in 1..Len(ops) :
    /\ ops[i].what = "header"
    /\ ops[i].off = 0
    /\ ops[i].frag.n = kBlockSize - kHeaderSize
    /\ ops[i].call = 2
    /\ ~ok(calls[1].status) /\ Returned(1)

\* The last physical record call k has emitted so far.
LastHeader(k) == HeadersOf(k)[Len(HeadersOf(k))]

\* ------------------------------------------------------------------------
\* C11: EmitPhysicalRecord advances block_offset by exactly kHeaderSize + n
\* whether its header Append, payload Append or Flush succeeded or failed:
\* when a call returns, failed or not, the offset is kHeaderSize + n behind
\* the offset of its last header; nothing rolls it back, and the next call
\* starts from that offset.
\* ------------------------------------------------------------------------
C11_OffsetAdvancesAnyway ==
  /\ \A k \in 1..Len(calls) :
       /\ Returned(k) =>
            /\ Len(HeadersOf(k)) >= 1
            /\ calls[k].finish =
                 LastHeader(k).off + kHeaderSize + LastHeader(k).frag.n
       /\ (k + 1 <= Len(calls)) => calls[k + 1].start = calls[k].finish
       /\ \A j \in 2..Len(HeadersOf(k)) :
            LET prev == HeadersOf(k)[j - 1]
            IN HeadersOf(k)[j].off =
                 (IF kBlockSize - (prev.off + kHeaderSize + prev.frag.n) < kHeaderSize
                  THEN 0 ELSE prev.off + kHeaderSize + prev.frag.n)
  /\ \A t \in Threads :
       (pc[t] = "L90" \/ (pc[t] = "L42" /\ ~begin[t])) =>
          block_offset = LastHeader(cur[t]).off + kHeaderSize + LastHeader(cur[t]).frag.n
  /\ (Idle /\ Len(calls) >= 1) => block_offset = calls[Len(calls)].finish

\* A call failed at its header Append, which wrote nothing; the offset moved
\* on by the whole record all the same, and the next call wrote its header
\* where the file is not.
C11_Witness ==
  /\ Len(calls) >= 2
  /\ ~ok(calls[1].status) /\ Returned(1)
  /\ ~LastHeader(1).ok
  /\ LastHeader(1).frag.n > 0
  /\ calls[1].finish = LastHeader(1).off + kHeaderSize + LastHeader(1).frag.n
  /\ fsize < calls[1].finish
  /\ Len(HeadersOf(2)) >= 1
  /\ HeadersOf(2)[1].off = calls[1].finish
  /\ HeadersOf(2)[1].pos /= HeadersOf(2)[1].off

\* A call started while another call was in flight.
SomeOverlap == \E k \in 1..Len(calls) : calls[k].overlap

\* A header of another call lies between two headers of call k.
Interleaved(k) ==
  \E i, j, l \in 1..Len(ops) :
    /\ i < j /\ j < l
    /\ ops[i].what = "header" /\ ops[i].call = k
    /\ ops[j].what = "header" /\ ops[j].call /= k
    /\ ops[l].what = "header" /\ ops[l].call = k

\* The tags of all headers appended, in the order of the destination.
FileTypes == LET hs == SelectSeq(ops, LAMBDA o : o.what = "header")
             IN [i \in 1..Len(hs) |-> hs[i].seg.h.b6]

\* ts is a sequence of complete groups followed by at most one open group.
RECURSIVE WellGrouped(_, _)
WellGrouped(ts, open) ==
  IF ts = <<>> THEN TRUE
  ELSE IF open
       THEN /\ Head(ts) \in {kMiddleType, kLastType}
            /\ WellGrouped(Tail(ts), Head(ts) = kMiddleType)
       ELSE /\ Head(ts) \in {kFullType, kFirstType}
            /\ WellGrouped(Tail(ts), Head(ts) = kFirstType)

\* ------------------------------------------------------------------------
\* C12: the writer takes no lock.  With callers that do not serialize their
\* calls, the fit assertion of EmitPhysicalRecord (line 95) can fail and the
\* fragments of two records can interleave in the destination, breaking the
\* First Middle* Last sequence of a record; both happen only when a call
\* was started while another was in flight, never in calls run one after
\* the other.
\* ------------------------------------------------------------------------
C12_OnlyOverlapBreaks ==
  /\ violated /= {} => SomeOverlap
  /\ (\E k \in 1..Len(calls) : Interleaved(k)) => SomeOverlap
  /\ (fails = 0 /\ ~WellGrouped(FileTypes, FALSE)) => SomeOverlap
  /\ block_offset > kBlockSize => SomeOverlap

\* Two overlapping calls, no destination failure: the fit assertion of line
\* 95 failed, and the headers in the destination read First, First, Last.
C12_Witness ==
  /\ fails = 0
  /\ "L95" \in violated
  /\ \E k \in 1..Len(calls) : Interleaved(k)
  /\ ~WellGrouped(FileTypes, FALSE)

\* The payload bytes of the physical record whose header Append is o.
FragmentBytes(o) == PayloadBytes0(calls[o.call].c, o.frag.from, o.frag.n)

\* ------------------------------------------------------------------------
\* C13: the checksum in a header is a function of the type tag and of the
\* fragment's payload bytes only, namely the masked crc32c of the tag byte
\* followed by the payload: two records of the same type and payload carry
\* the same checksum whatever the block offsets they were written at and
\* whatever came before; the per-type table keeps the values given to it
\* at construction.
\* ------------------------------------------------------------------------
C13_ChecksumOfTypeAndPayload ==
  /\ \A i, j \in 1..Len(ops) :
       (/\ ops[i].what = "header" /\ ops[j].what = "header"
        /\ ops[i].seg.h.b6 = ops[j].seg.h.b6
        /\ FragmentBytes(ops[i]) = FragmentBytes(ops[j]))
       => ops[i].seg.h.crc = ops[j].seg.h.crc
  /\ \A i \in 1..Len(ops) :
       ops[i].what = "header" =>
         LET bytes == FragmentBytes(ops[i])
             over == <<TagSpan(ops[i].seg.h.b6)>> \o bytes
         IN ops[i].seg.h.crc = [masked |-> TRUE, over |-> over]
  /\ type_crc = [i \in 0..kMaxRecordType |->
                   [masked |-> FALSE, over |-> <<TagSpan(i)>>]]

\* Two records of the same type and the same non-empty payload were written
\* at different block offsets, by different calls, with the same checksum.
C13_Witness ==
  /\ \E i, j \in 1..Len(ops) :
       /\ ops[i].what = "header" /\ ops[j].what = "header"
       /\ ops[i].call /= ops[j].call
       /\ ops[i].off /= ops[j].off
       /\ ops[i].frag.n > 0
       /\ ops[i].seg.h.b6 = ops[j].seg.h.b6
       /\ FragmentBytes(ops[i]) = FragmentBytes(ops[j])
       /\ ops[i].seg.h.crc = ops[j].seg.h.crc

\* The indices in ops of the destination calls EmitPhysicalRecord has made
\* for the record call k emitted last: its header Append and what follows.
LastEmitOps(k) ==
  {i \in OpsOf(k) : \A h \in OpsOfKind(k, "header") : h <= i}

\* ------------------------------------------------------------------------
\* C14: in EmitPhysicalRecord a payload Append is made only after the header
\* Append of the same record succeeded, and a Flush only after its payload
\* Append succeeded; the status returned is that of the first call that
\* failed, after which no call is made, and it is OK only if the header
\* Append, the payload Append and the Flush were all made and succeeded.
\* ------------------------------------------------------------------------
C14_ShortCircuit ==
  /\ \A k \in 1..Len(calls) :
       LET all == CallOps(k)
       IN \A i \in 1..Len(all) :
            /\ all[i].what = "payload" =>
                 (i > 1 /\ all[i - 1].what = "header" /\ all[i - 1].ok
                        /\ all[i - 1].frag = all[i].frag)
            /\ all[i].what = "flush" =>
                 (i > 1 /\ all[i - 1].what = "payload" /\ all[i - 1].ok
                        /\ all[i - 1].frag = all[i].frag)
            /\ all[i].what = "header" =>
                 (i > 1 => (all[i - 1].what = "trailer"
                            \/ (all[i - 1].what = "flush" /\ all[i - 1].ok)))
  /\ \A t \in Threads :
       pc[t] = "L125" =>
         LET made == LastEmitOps(cur[t])
             bad == {i \in made : ~ops[i].ok}
         IN /\ made /= {}
            /\ ok(es[t]) <=>
                 (/\ Cardinality(made) = 3
                  /\ bad = {}
                  /\ \E i \in made : ops[i].what = "flush")
            /\ ~ok(es[t]) =>
                 /\ Cardinality(bad) = 1
                 /\ \A i \in bad : es[t] = IOError(i) /\ \A j \in made : j <= i

\* EmitPhysicalRecord is about to return the error of its payload Append,
\* having made no Flush.
C14_Witness ==
  \E t \in Threads :
    /\ pc[t] = "L125"
    /\ ~ok(es[t])
    /\ ops[es[t].op].what = "payload"
    /\ Cardinality(LastEmitOps(cur[t])) = 2

\* What holds of the loop of AddRecord in every state.
C15_LoopShape ==
  /\ \A k \in 1..Len(calls) :
       LET hs == HeadersOf(k)
       IN /\ Returned(k) => Len(hs) >= 1
          /\ \A j \in 1..Len(hs) :
               /\ (j < Len(hs)) =>
                    /\ hs[j].frag.from + hs[j].frag.n < calls[k].len
                    /\ hs[j].ok
               /\ (hs[j].frag.n = 0 /\ calls[k].len > hs[j].frag.from) =>
                    /\ hs[j].off = kBlockSize - kHeaderSize
                    /\ hs[j].seg.h.b6 = kFirstType
                    /\ (j < Len(hs)) =>
                         (hs[j + 1].off = 0 /\ hs[j + 1].frag.n >= 1)
  /\ \A t \in Threads :
       /\ (pc[t] = "L42" /\ ~begin[t]) => (left[t] > 0 /\ ok(s[t]))
       /\ pc[t] = "L90" => (left[t] = 0 \/ ~ok(s[t]))
       /\ pc[t] = "L90" => Len(HeadersOf(cur[t])) >= 1

\* ------------------------------------------------------------------------
\* C15: every AddRecord call terminates, each destination call returning:
\* the body runs at least once, the loop goes on only while bytes remain
\* and the last emission succeeded, and an iteration that consumes no byte
\* while bytes remain (a zero-length First record at offset kBlockSize -
\* kHeaderSize) is followed at once by one at offset 0 that consumes a byte.
\* ------------------------------------------------------------------------
C15_Terminates ==
  /\ []C15_LoopShape
  /\ (pc[Caller] /= "idle") ~> (pc[Caller] = "idle")

\* A call returned OK whose first record is a First of no byte at offset
\* kBlockSize - kHeaderSize and whose second starts the next block.
C15_Witness ==
  \E k \in 1..Len(calls) :
    /\ ok(calls[k].status)
    /\ Len(HeadersOf(k)) >= 2
    /\ HeadersOf(k)[1].frag.n = 0
    /\ HeadersOf(k)[1].off = kBlockSize - kHeaderSize
    /\ HeadersOf(k)[2].off = 0
    /\ HeadersOf(k)[2].frag.n >= 1

\* ------------------------------------------------------------------------
\* C16: from a block-aligned destination, whenever every AddRecord call so
\* far has returned OK, the number of bytes appended is congruent to
\* block_offset modulo kBlockSize, and every header written so far starts
\* at the block offset the writer held for it.
\* ------------------------------------------------------------------------
C16_OffsetIsFilePosition ==
  (Idle /\ AllSucceeded) =>
    /\ fsize % kBlockSize = block_offset % kBlockSize
    /\ \A i \in 1..Len(ops) :
         ops[i].what = "header" =>
           ops[i].pos % kBlockSize = ops[i].off % kBlockSize

\* The same when no destination call failed.
C16_OffsetIsFilePositionNoFailure ==
  (Idle /\ fails = 0) =>
    /\ fsize % kBlockSize = block_offset % kBlockSize
    /\ \A i \in 1..Len(ops) :
         ops[i].what = "header" =>
           ops[i].pos % kBlockSize = ops[i].off % kBlockSize

\* ------------------------------------------------------------------------
\* C17: within one AddRecord call a First or Middle fragment ends exactly
\* at a block boundary (its header offset plus kHeaderSize plus its length
\* is kBlockSize), a Middle or Last fragment has its header at block offset
\* 0, a Middle fragment carries kBlockSize - kHeaderSize bytes, and no
\* trailer is written after the first fragment of the call.
\* ------------------------------------------------------------------------
C17_FragmentsAligned ==
  \A k \in 1..Len(calls) :
    /\ \A j \in 1..Len(HeadersOf(k)) :
         LET h == HeadersOf(k)[j]
             ty == h.seg.h.b6
         IN /\ ty \in {kFirstType, kMiddleType} =>
                 h.off + kHeaderSize + h.frag.n = kBlockSize
            /\ ty \in {kMiddleType, kLastType} => h.off = 0
            /\ ty = kMiddleType => h.frag.n = kBlockSize - kHeaderSize
            /\ (ty \in {kFirstType, kMiddleType} /\ cur[Caller] = k
                  /\ pc[Caller] \in {"L42", "L52", "L55"}) =>
                 (j = Len(HeadersOf(k)) => block_offset = kBlockSize)
    /\ \A i \in OpsOfKind(k, "trailer") :
         \A j \in OpsOfKind(k, "header") : i < j

\* A call returned OK that wrote a First, a Middle and a Last fragment.
C17_Witness ==
  \E k \in 1..Len(calls) :
    /\ ok(calls[k].status)
    /\ TypesOf(k) = <<kFirstType, kMiddleType, kLastType>>
    /\ OpsOfKind(k, "trailer") = {}

====
